---- MODULE Spec2Model ----
(***************************************************************************)
(* Model of the lexical probability model and the sentence classifier of   *)
(* Teki (src/teki_main_app.py): get_feat_count, get_probs,                 *)
(* sentence_classification and the "load training file" and "sentence      *)
(* classification" entries of run_program's menu loop.                     *)
(*                                                                         *)
(* Python's int / int is modelled in exact rational arithmetic: a number   *)
(* is a pair <<numerator, denominator>> in lowest terms.  The pair <<0,0>> *)
(* stands for "this division raised ZeroDivisionError".                    *)
(***************************************************************************)
EXTENDS Integers, Sequences, FiniteSets, TLC

VARIABLES
    pc,               \* where the program is: menu, get_probs, scan, classify_menu, classified
    doc,              \* run_program: doc, by the file it was read from
    database,         \* run_program: the rows of the file `database` names
    freq,             \* run_program: freq (<< >> while unbound)
    probs,            \* run_program: probs (<< >> while unbound)
    feat_count,       \* get_probs: feat_count
    training_data,    \* get_probs: training_data
    n_training_data,  \* get_probs: n_training_data
    vocabulary,       \* get_probs: vocabulary
    oral_feat,        \* get_probs: oral_feat (incremented on LIT rows)
    lit_feat,         \* get_probs: lit_feat (incremented on ORAL rows)
    prob_results,     \* get_probs: prob_results
    i,                \* get_probs: position of the for loop in training_data
    text,             \* calculate: text
    lit_prior,        \* calculate: lit_prob_total as first bound, before the loops
    oral_prior,       \* calculate: oral_prob_total as first bound, before the loops
    word_feat_prob,   \* calculate: word_feat_prob
    lit_prob_total,   \* calculate: lit_prob_total when the function returns
    oral_prob_total,  \* calculate: oral_prob_total when the function returns
    result,           \* calculate: the returned string ("" before any return)
    res,              \* sentence_classification: res of the last file analysed (<< >> while unbound)
    log,              \* the functions whose exception a handler has reported and logged
    error             \* the exception the last call raised and the function that raised it

vars == <<pc, doc, database, freq, probs, feat_count, training_data, n_training_data,
          vocabulary, oral_feat, lit_feat, prob_results, i, text, lit_prior, oral_prior,
          word_feat_prob, lit_prob_total, oral_prob_total, result, res, log, error>>

-----------------------------------------------------------------------------
(* Bounds of the model. *)

MaxRows == 3

MaxTextLen == 2

SeqsUpTo(S, n) == UNION {[1..k -> S] : k \in 0..n}

(* Rows as csv.reader yields them: lists of strings.  Six well-formed rows  *)
(* (word a in two sentences, word b in one), one row whose label is not    *)
(* exactly LIT or ORAL, one with five fields, one with seven, and the      *)
(* empty list csv.reader yields for a blank line.                          *)
WellFormedRows ==
    {<<"a", "P", "D", s, "c1", f>> : s \in {"SEN:0", "SEN:1"}, f \in {"LIT", "ORAL"}}
        \cup {<<"b", "P", "D", "SEN:0", "c1", f>> : f \in {"LIT", "ORAL"}}

BadLabelRow == <<"a", "P", "D", "SEN:0", "c1", "lit">>

ShortRow == <<"b", "P", "D", "SEN:1", "c1">>

LongRow == <<"a", "P", "D", "SEN:1", "c1", "ORAL", "x">>

BlankRow == << >>

Rows == WellFormedRows \cup {BadLabelRow, ShortRow, LongRow, BlankRow}

Tables == SeqsUpTo(Rows, MaxRows)

Tokens == {"a", "b", "z"}

Texts == SeqsUpTo(Tokens, MaxTextLen)

(* The training files the user can select in the menu loop: the table of the  *)
(* specification's scenario, a second well-formed table, a table with a short *)
(* row and an empty file.                                                     *)
ScenarioTable == <<(<<"a", "P", "D", "SEN:0", "c1", "LIT">>), (<<"b", "P", "D", "SEN:0", "c1", "ORAL">>)>>

SecondTable ==
    <<(<<"a", "P", "D", "SEN:0", "c1", "LIT">>), (<<"a", "P", "D", "SEN:1", "c1", "LIT">>),
      (<<"b", "P", "D", "SEN:0", "c1", "ORAL">>)>>

ShortTable == <<(<<"a", "P", "D", "SEN:0", "c1", "LIT">>), ShortRow>>

EmptyTable == << >>

MenuDatabases == {ScenarioTable, SecondTable, ShortTable, EmptyTable}

(* The documents the user can select with "load .xml or .txt file"; the first *)
(* is the default document of the program.                                    *)
default_doc == [name |-> "mueller_oral", extension |-> ".txt"]

DocumentFiles ==
    {default_doc, [name |-> "user", extension |-> ".xml"], [name |-> "user", extension |-> ".pdf"]}

(* What doc is bound to when get_text returns without a return statement. *)
None == [name |-> "", extension |-> ""]

(* get_text: the contents of the file, named here by the file, for the three *)
(* extensions it reads; None for any other extension.                        *)
get_text(document) ==
    IF document.extension \in {".xml", ".csv", ".txt"} THEN document ELSE None

(* The files of sentences the user can select for "analyze sentences of a file", *)
(* each as the token lists of its sentences.                                     *)
Documents == {<<(<<"a">>), (<<"b", "z">>)>>, <<(<<"z", "z">>)>>}

-----------------------------------------------------------------------------
(* Exceptions. *)

NoError == [type |-> "none", in |-> ""]

Exception(type, function) == [type |-> type, in |-> function]

(* Python dict, as a function on its key set. *)

EmptyDict == << >>

DictGet(d, k, default) == IF k \in DOMAIN d THEN d[k] ELSE default

DictPut(d, k, v) == [x \in (DOMAIN d) \cup {k} |-> IF x = k THEN v ELSE d[x]]

RECURSIVE SumOver(_, _)
SumOver(d, keys) ==
    IF keys = {} THEN 0
    ELSE LET k == CHOOSE x \in keys : TRUE IN d[k] + SumOver(d, keys \ {k})

SumValues(d) == SumOver(d, DOMAIN d)

(* Exact arithmetic. *)

RECURSIVE GCD(_, _)
GCD(a, b) == IF b = 0 THEN a ELSE GCD(b, a % b)

Norm(n, d) == LET g == GCD(n, d) IN <<n \div g, d \div g>>

ZeroDivision == <<0, 0>>

Raised(x) == x[2] = 0

Divide(a, b) == IF b = 0 THEN ZeroDivision ELSE Norm(a, b)

Times(x, y) == Norm(x[1] * y[1], x[2] * y[2])

Greater(x, y) == x[1] * y[2] > y[1] * x[2]

-----------------------------------------------------------------------------
(* get_feat_count *)

sentence_collection(rows) == {<<row[4], row[5], row[6]>> : row \in {rows[k] : k \in DOMAIN rows}}

RECURSIVE CountSentences(_, _)
CountSentences(fc, collection) ==
    IF collection = {} THEN fc
    ELSE LET sentence == CHOOSE s \in collection : TRUE
             feat == sentence[3]
         IN  CountSentences(DictPut(fc, feat, DictGet(fc, feat, 0) + 1), collection \ {sentence})

get_feat_count_MutNoInitialKeys(file) ==
    IF \E k \in DOMAIN file : Len(file[k]) < 6
    THEN [raised |-> "IndexError", value |-> << >>]
    ELSE [raised |-> "none",
          value |-> <<CountSentences(EmptyDict, sentence_collection(file)), file>>]

get_feat_count_MutSkipShort(file) ==
    LET kept == SelectSeq(file, LAMBDA row : Len(row) >= 6)
    IN  [raised |-> "none",
         value |-> <<CountSentences([f \in {"LIT", "ORAL"} |-> 0], sentence_collection(kept)), kept>>]

(* row[3], row[4], row[5] of a row with fewer than six fields is an          *)
(* IndexError, raised inside the set comprehension before anything is      *)
(* returned.                                                               *)
get_feat_count(file) ==
    IF \E k \in DOMAIN file : Len(file[k]) < 6
    THEN [raised |-> "IndexError", value |-> << >>]
    ELSE [raised |-> "none",
          value |-> <<CountSentences([f \in {"LIT", "ORAL"} |-> 0], sentence_collection(file)), file>>]

-----------------------------------------------------------------------------
(* get_probs *)

feat_1_prob_MutOtherCounter(word, of, lf, fc, n) ==
    IF DictGet(lf, word, 0) > 0
    THEN Divide(lf[word], fc["LIT"])
    ELSE Divide(fc["LIT"], n * n)

feat_1_prob(word, of, lf, fc, n) ==
    IF DictGet(of, word, 0) > 0
    THEN Divide(of[word], fc["LIT"])
    ELSE Divide(fc["LIT"], n * n)

feat_2_prob_MutNoSmoothing(word, of, lf, fc, n) ==
    Divide(DictGet(lf, word, 0), fc["ORAL"])

feat_2_prob(word, of, lf, fc, n) ==
    IF DictGet(lf, word, 0) > 0
    THEN Divide(lf[word], fc["ORAL"])
    ELSE Divide(fc["ORAL"], n * n)

(* One iteration of the for loop over training_data, on the loop's dicts. *)
get_probs_row_MutFirstPairKept(acc, element, fc, n) ==
    LET word == element[1]
        feat == element[6]
        of == IF feat = "LIT" THEN DictPut(acc.oral_feat, word, DictGet(acc.oral_feat, word, 0) + 1)
              ELSE acc.oral_feat
        lf == IF feat = "ORAL" THEN DictPut(acc.lit_feat, word, DictGet(acc.lit_feat, word, 0) + 1)
              ELSE acc.lit_feat
        p1 == feat_1_prob(word, of, lf, fc, n)
        p2 == feat_2_prob(word, of, lf, fc, n)
    IN  [vocabulary |-> acc.vocabulary \cup {word},
         oral_feat |-> of,
         lit_feat |-> lf,
         prob_results |-> IF Raised(p1) \/ Raised(p2) \/ word \in DOMAIN acc.prob_results
                          THEN acc.prob_results
                          ELSE DictPut(acc.prob_results, word, <<p1, p2>>),
         raised |-> IF Raised(p1) \/ Raised(p2) THEN "ZeroDivisionError" ELSE "none"]

get_probs_row_MutSkipUnlabelled(acc, element, fc, n) ==
    LET word == element[1]
        feat == element[6]
        of == IF feat = "LIT" THEN DictPut(acc.oral_feat, word, DictGet(acc.oral_feat, word, 0) + 1)
              ELSE acc.oral_feat
        lf == IF feat = "ORAL" THEN DictPut(acc.lit_feat, word, DictGet(acc.lit_feat, word, 0) + 1)
              ELSE acc.lit_feat
        p1 == feat_1_prob(word, of, lf, fc, n)
        p2 == feat_2_prob(word, of, lf, fc, n)
    IN  [vocabulary |-> acc.vocabulary \cup {word},
         oral_feat |-> of,
         lit_feat |-> lf,
         prob_results |-> IF Raised(p1) \/ Raised(p2) \/ feat \notin {"LIT", "ORAL"}
                          THEN acc.prob_results
                          ELSE DictPut(acc.prob_results, word, <<p1, p2>>),
         raised |-> IF Raised(p1) \/ Raised(p2) THEN "ZeroDivisionError" ELSE "none"]

get_probs_row(acc, element, fc, n) ==
    LET word == element[1]
        feat == element[6]
        of == IF feat = "LIT" THEN DictPut(acc.oral_feat, word, DictGet(acc.oral_feat, word, 0) + 1)
              ELSE acc.oral_feat
        lf == IF feat = "ORAL" THEN DictPut(acc.lit_feat, word, DictGet(acc.lit_feat, word, 0) + 1)
              ELSE acc.lit_feat
        p1 == feat_1_prob(word, of, lf, fc, n)
        p2 == feat_2_prob(word, of, lf, fc, n)
    IN  [vocabulary |-> acc.vocabulary \cup {word},
         oral_feat |-> of,
         lit_feat |-> lf,
         prob_results |-> IF Raised(p1) \/ Raised(p2) THEN acc.prob_results
                          ELSE DictPut(acc.prob_results, word, <<p1, p2>>),
         raised |-> IF Raised(p1) \/ Raised(p2) THEN "ZeroDivisionError" ELSE "none"]

RECURSIVE ScanFrom(_, _, _, _, _)
ScanFrom(acc, rows, k, fc, n) ==
    IF k > Len(rows) \/ acc.raised # "none" THEN acc
    ELSE ScanFrom(get_probs_row(acc, rows[k], fc, n), rows, k + 1, fc, n)

(* get_probs as a whole: the value it returns for (feat_count, training_data). *)
get_probs(freq_training_data) ==
    LET fc == freq_training_data[1]
        rows == freq_training_data[2]
        start == [vocabulary |-> {}, oral_feat |-> EmptyDict, lit_feat |-> EmptyDict,
                  prob_results |-> EmptyDict, raised |-> "none"]
        end == ScanFrom(start, rows, 1, fc, SumValues(fc))
    IN  [raised |-> end.raised, value |-> <<fc, end.prob_results>>]

-----------------------------------------------------------------------------
(* sentence_classification.calculate *)

decision_MutTieIsLit(lit_total, oral_total) ==
    IF ~Greater(oral_total, lit_total) THEN "LIT" ELSE "ORAL"

decision(lit_total, oral_total) ==
    IF Greater(lit_total, oral_total) THEN "LIT"
    ELSE IF Greater(oral_total, lit_total) THEN "ORAL"
    ELSE "UNK"

(* lit_prob / (lit_prob + oral_prob) and oral_prob / (lit_prob + oral_prob) *)
prior_MutNoParentheses(count, lit_prob, oral_prob) ==
    Divide(count + oral_prob * lit_prob, lit_prob)

prior(count, lit_prob, oral_prob) == Divide(count, lit_prob + oral_prob)

(* for word in text: word_feat_prob[word] = ... ; a dict, so one entry per distinct word *)
RECURSIVE CollectWordProbs_MutSwappedSmooth(_, _, _, _, _)
CollectWordProbs_MutSwappedSmooth(wfp, prior_prob, smooth, txt, k) ==
    IF k > Len(txt) THEN wfp
    ELSE LET word == txt[k]
             pair == IF word \in DOMAIN prior_prob THEN prior_prob[word]
                     ELSE <<smooth[2], smooth[1]>>
         IN  CollectWordProbs_MutSwappedSmooth(DictPut(wfp, word, pair), prior_prob, smooth,
                                               txt, k + 1)

RECURSIVE CollectWordProbs(_, _, _, _, _)
CollectWordProbs(wfp, prior_prob, smooth, txt, k) ==
    IF k > Len(txt) THEN wfp
    ELSE LET word == txt[k]
             pair == IF word \in DOMAIN prior_prob THEN prior_prob[word] ELSE smooth
         IN  CollectWordProbs(DictPut(wfp, word, pair), prior_prob, smooth, txt, k + 1)

(* for word in word_feat_prob: total *= word_feat_prob[word][side] *)
RECURSIVE MultiplyEntries(_, _, _, _)
MultiplyEntries(total, wfp, keys, side) ==
    IF keys = {} THEN total
    ELSE LET word == CHOOSE w \in keys : TRUE
         IN  MultiplyEntries(Times(total, wfp[word][side]), wfp, keys \ {word}, side)

(* probabilities = (feat_count, prob_results); calculate binds them crosswise: *)
(* prior_prob is the word map and prob_results the label counts.               *)
(* The record returned also carries the values the call leaves behind: the    *)
(* priors of lines 916-917 and the (mutable) dicts of `probabilities`.        *)
calculate_MutAliasWordMap(probabilities, txt) ==
    LET prior_prob == probabilities[2]
        counts == probabilities[1]
        lit_prob == counts["LIT"]
        oral_prob == counts["ORAL"]
        lit_seed == prior(lit_prob, lit_prob, oral_prob)
        oral_seed == prior(oral_prob, lit_prob, oral_prob)
        n == SumValues(counts) * SumValues(counts)
        lit_smooth == Divide(lit_prob, n)
        oral_smooth == Divide(oral_prob, n)
    IN  IF Raised(lit_seed) \/ Raised(oral_seed) \/ Raised(lit_smooth) \/ Raised(oral_smooth)
        THEN [raised |-> "ZeroDivisionError", lit_prior |-> << >>, oral_prior |-> << >>,
              word_feat_prob |-> EmptyDict, lit_prob_total |-> << >>,
              oral_prob_total |-> << >>, result |-> "", probabilities |-> probabilities]
        ELSE LET wfp == CollectWordProbs(prior_prob, prior_prob, <<lit_smooth, oral_smooth>>, txt, 1)
                 lit_total == MultiplyEntries(lit_seed, wfp, DOMAIN wfp, 1)
                 oral_total == MultiplyEntries(oral_seed, wfp, DOMAIN wfp, 2)
             IN  [raised |-> "none", lit_prior |-> lit_seed, oral_prior |-> oral_seed,
                  word_feat_prob |-> wfp,
                  lit_prob_total |-> lit_total, oral_prob_total |-> oral_total,
                  result |-> decision(lit_total, oral_total),
                  probabilities |-> <<counts, wfp>>]

calculate(probabilities, txt) ==
    LET prior_prob == probabilities[2]
        counts == probabilities[1]
        lit_prob == counts["LIT"]
        oral_prob == counts["ORAL"]
        lit_seed == prior(lit_prob, lit_prob, oral_prob)
        oral_seed == prior(oral_prob, lit_prob, oral_prob)
        n == SumValues(counts) * SumValues(counts)
        lit_smooth == Divide(lit_prob, n)
        oral_smooth == Divide(oral_prob, n)
    IN  IF Raised(lit_seed) \/ Raised(oral_seed) \/ Raised(lit_smooth) \/ Raised(oral_smooth)
        THEN [raised |-> "ZeroDivisionError", lit_prior |-> << >>, oral_prior |-> << >>,
              word_feat_prob |-> EmptyDict, lit_prob_total |-> << >>,
              oral_prob_total |-> << >>, result |-> "", probabilities |-> probabilities]
        ELSE LET wfp == CollectWordProbs(EmptyDict, prior_prob, <<lit_smooth, oral_smooth>>, txt, 1)
                 lit_total == MultiplyEntries(lit_seed, wfp, DOMAIN wfp, 1)
                 oral_total == MultiplyEntries(oral_seed, wfp, DOMAIN wfp, 2)
             IN  [raised |-> "none", lit_prior |-> lit_seed, oral_prior |-> oral_seed,
                  word_feat_prob |-> wfp,
                  lit_prob_total |-> lit_total, oral_prob_total |-> oral_total,
                  result |-> decision(lit_total, oral_total),
                  probabilities |-> probabilities]

(* sentence_classification, user == "2": the for loop over the sentences of the *)
(* file.  acc holds the model, the counters of `res` and the exception raised.  *)
RECURSIVE AnalyzeSentences(_, _, _)
AnalyzeSentences(acc, sentences, k) ==
    IF k > Len(sentences) \/ acc.raised # "none" THEN acc
    ELSE LET r == calculate(acc.probabilities, sentences[k])
         IN  IF r.raised # "none"
             THEN [acc EXCEPT !.raised = r.raised, !.probabilities = r.probabilities]
             ELSE AnalyzeSentences(
                    [probabilities |-> r.probabilities,
                     raised |-> "none",
                     sentence_count |-> acc.sentence_count + 1,
                     token_count |-> acc.token_count + Len(sentences[k]),
                     lit_count |-> acc.lit_count + (IF r.result = "LIT" THEN 1 ELSE 0),
                     oral_count |-> acc.oral_count + (IF r.result = "ORAL" THEN 1 ELSE 0),
                     unk_count |-> acc.unk_count
                                     + (IF r.result \notin {"LIT", "ORAL"} THEN 1 ELSE 0)],
                    sentences, k + 1)

-----------------------------------------------------------------------------
Init ==
    /\ pc = "menu"
    /\ doc = get_text(default_doc)
    /\ database \in Tables
    /\ freq = << >>
    /\ probs = << >>
    /\ feat_count = EmptyDict
    /\ training_data = << >>
    /\ n_training_data = 0
    /\ vocabulary = {}
    /\ oral_feat = EmptyDict
    /\ lit_feat = EmptyDict
    /\ prob_results = EmptyDict
    /\ i = 0
    /\ text = << >>
    /\ lit_prior = << >>
    /\ oral_prior = << >>
    /\ word_feat_prob = EmptyDict
    /\ lit_prob_total = << >>
    /\ oral_prob_total = << >>
    /\ result = ""
    /\ res = << >>
    /\ log = {}
    /\ error = NoError

get_probs_locals == <<feat_count, training_data, n_training_data, vocabulary,
                      oral_feat, lit_feat, prob_results, i>>

calculate_locals == <<text, lit_prior, oral_prior, word_feat_prob, lit_prob_total,
                       oral_prob_total, result>>

ChooseClassification_MutClassifyAnyway ==
    /\ pc = "menu"
    /\ LET r == get_feat_count(database)
       IN  IF r.raised # "none"
           THEN /\ error' = Exception(r.raised, "get_feat_count")
                /\ pc' = IF probs # << >> THEN "classify_menu" ELSE "menu"
                /\ UNCHANGED freq
           ELSE /\ error' = NoError
                /\ pc' = "get_probs"
                /\ freq' = r.value
    /\ UNCHANGED <<doc, database, probs, get_probs_locals, calculate_locals, res, log>>

(* run_program, menu entry "sentence classification": freq = get_feat_count(database). *)
(* An exception leaves the try block through `except: pass`, back to the menu.         *)
ChooseClassification ==
    /\ pc = "menu"
    /\ LET r == get_feat_count(database)
       IN  IF r.raised # "none"
           THEN /\ error' = Exception(r.raised, "get_feat_count")
                /\ pc' = "menu"
                /\ UNCHANGED freq
           ELSE /\ error' = NoError
                /\ pc' = "get_probs"
                /\ freq' = r.value
    /\ UNCHANGED <<doc, database, probs, get_probs_locals, calculate_locals, res, log>>

(* get_probs, up to the for loop. *)
GetProbsEnter ==
    /\ pc = "get_probs"
    /\ feat_count' = freq[1]
    /\ training_data' = freq[2]
    /\ n_training_data' = SumValues(freq[1])
    /\ vocabulary' = {}
    /\ prob_results' = EmptyDict
    /\ oral_feat' = EmptyDict
    /\ lit_feat' = EmptyDict
    /\ i' = 1
    /\ pc' = "scan"
    /\ UNCHANGED <<doc, database, freq, probs, calculate_locals, res, log, error>>

(* get_probs, one iteration of the for loop. *)
GetProbsRow ==
    /\ pc = "scan"
    /\ i <= Len(training_data)
    /\ LET acc == [vocabulary |-> vocabulary, oral_feat |-> oral_feat, lit_feat |-> lit_feat,
                   prob_results |-> prob_results, raised |-> "none"]
           r == get_probs_row(acc, training_data[i], feat_count, n_training_data)
       IN  /\ vocabulary' = r.vocabulary
           /\ oral_feat' = r.oral_feat
           /\ lit_feat' = r.lit_feat
           /\ prob_results' = r.prob_results
           /\ IF r.raised # "none"
              THEN /\ error' = Exception(r.raised, "get_probs")
                   /\ pc' = "menu"
                   /\ UNCHANGED i
              ELSE /\ i' = i + 1
                   /\ UNCHANGED <<pc, error>>
    /\ UNCHANGED <<doc, database, freq, probs, feat_count, training_data, n_training_data,
                   calculate_locals, res, log>>

(* get_probs returns; run_program binds probs and calls sentence_classification. *)
GetProbsReturn ==
    /\ pc = "scan"
    /\ i > Len(training_data)
    /\ probs' = <<feat_count, prob_results>>
    /\ pc' = "classify_menu"
    /\ UNCHANGED <<doc, database, freq, get_probs_locals, calculate_locals, res, log, error>>

(* sentence_classification, user == "1": sentence = input(...).split(), then    *)
(* calculate(sentence).  An exception propagates out of sentence_classification *)
(* into run_program's `except: pass`, back to the main menu.                    *)
AnalyzeSentence ==
    /\ pc = "classify_menu"
    /\ \E sentence \in Texts :
         LET r == calculate(probs, sentence)
         IN  /\ text' = sentence
             /\ lit_prior' = r.lit_prior
             /\ oral_prior' = r.oral_prior
             /\ word_feat_prob' = r.word_feat_prob
             /\ lit_prob_total' = r.lit_prob_total
             /\ oral_prob_total' = r.oral_prob_total
             /\ result' = r.result
             /\ probs' = r.probabilities
             /\ error' = IF r.raised # "none" THEN Exception(r.raised, "calculate") ELSE NoError
             /\ pc' = IF r.raised # "none" THEN "menu" ELSE "classified"
             /\ res' = IF r.raised # "none" THEN << >> ELSE res
    /\ UNCHANGED <<doc, database, freq, get_probs_locals, log>>

(* sentence_classification: input(return_main_menu_msg) after calculate returned; *)
(* the loop then prompts again and the locals of that call are gone.              *)
AcknowledgeResult ==
    /\ pc = "classified"
    /\ pc' = "classify_menu"
    /\ text' = << >>
    /\ lit_prior' = << >>
    /\ oral_prior' = << >>
    /\ word_feat_prob' = EmptyDict
    /\ lit_prob_total' = << >>
    /\ oral_prob_total' = << >>
    /\ result' = ""
    /\ UNCHANGED <<doc, database, freq, probs, get_probs_locals, res, log, error>>

(* sentence_classification, user == "3": break, back to the main menu. *)
ReturnToMainMenu ==
    /\ pc = "classify_menu"
    /\ pc' = "menu"
    /\ res' = << >>
    /\ UNCHANGED <<doc, database, freq, probs, get_probs_locals, calculate_locals, log, error>>

(* sentence_classification, user == "2": every sentence of the selected file is *)
(* classified and counted; an exception of calculate leaves through             *)
(* run_program's `except: pass`.                                                *)
AnalyzeFile ==
    /\ pc = "classify_menu"
    /\ \E document \in Documents :
         LET start == [probabilities |-> probs, raised |-> "none", sentence_count |-> 0,
                       token_count |-> 0, lit_count |-> 0, oral_count |-> 0, unk_count |-> 0]
             end == AnalyzeSentences(start, document, 1)
         IN  /\ probs' = end.probabilities
             /\ IF end.raised # "none"
                THEN /\ error' = Exception(end.raised, "calculate")
                     /\ pc' = "menu"
                     /\ res' = << >>
                ELSE /\ error' = NoError
                     /\ pc' = "classify_menu"
                     /\ res' = <<end.sentence_count, end.token_count, end.lit_count,
                                 end.oral_count, end.unk_count>>
    /\ UNCHANGED <<doc, database, freq, get_probs_locals, calculate_locals, log>>

(* sentence_classification, user == "2": file_finder, get_text, content_analysis *)
(* or the tagger raises; the exception leaves through `except: pass`.            *)
AnalyzeFileFails ==
    /\ pc = "classify_menu"
    /\ error' = Exception("Exception", "get_text")
    /\ pc' = "menu"
    /\ res' = << >>
    /\ UNCHANGED <<doc, database, freq, probs, get_probs_locals, calculate_locals, log>>

(* sentence_classification, user == "2": content_analysis returns nothing *)
(* (the user asked for the main menu): break.                             *)
AnalyzeFileCancelled ==
    /\ pc = "classify_menu"
    /\ pc' = "menu"
    /\ res' = << >>
    /\ UNCHANGED <<doc, database, freq, probs, get_probs_locals, calculate_locals, log, error>>

(* run_program, menu entry "load training file": database = get_database(). *)
LoadTrainingFile ==
    /\ pc = "menu"
    /\ \E file \in MenuDatabases : database' = file
    /\ error' = NoError
    /\ UNCHANGED <<pc, doc, freq, probs, get_probs_locals, calculate_locals, res, log>>

LoadTrainingFileFails_MutSelectionLost ==
    /\ pc = "menu"
    /\ error' = Exception("Exception", "get_database")
    /\ log' = log \cup {"get_database"}
    /\ database' = EmptyTable
    /\ UNCHANGED <<pc, doc, freq, probs, get_probs_locals, calculate_locals, res>>

(* run_program, menu entry "load training file": get_database raises; the  *)
(* handler prompts "You did not select a file" and logs the exception.     *)
LoadTrainingFileFails ==
    /\ pc = "menu"
    /\ error' = Exception("Exception", "get_database")
    /\ log' = log \cup {"get_database"}
    /\ UNCHANGED <<pc, doc, database, freq, probs, get_probs_locals, calculate_locals, res>>

(* run_program, menu entry "load .xml or .txt file": doc = get_text(file_finder()). *)
LoadDocument ==
    /\ pc = "menu"
    /\ \E path_name \in DocumentFiles : doc' = get_text(path_name)
    /\ error' = NoError
    /\ UNCHANGED <<pc, database, freq, probs, get_probs_locals, calculate_locals, res, log>>

(* run_program, menu entry "load .xml or .txt file": file_finder or get_text raises *)
(* before doc is bound; the handler prompts and logs the exception.                 *)
LoadDocumentFails ==
    /\ pc = "menu"
    /\ error' = Exception("Exception", "get_text")
    /\ log' = log \cup {"get_text"}
    /\ UNCHANGED <<pc, doc, database, freq, probs, get_probs_locals, calculate_locals, res>>

(* run_program, menu entry "analyze contents": content_analysis(doc) and, if it  *)
(* returns content, the tagger and generate_training_data; doc and database are *)
(* passed on and not bound again.                                                *)
AnalyzeContents ==
    /\ pc = "menu"
    /\ error' = NoError
    /\ UNCHANGED <<pc, doc, database, freq, probs, get_probs_locals, calculate_locals, res, log>>

(* run_program, menu entry "analyze contents": an exception is printed and logged. *)
AnalyzeContentsFails ==
    /\ pc = "menu"
    /\ error' = Exception("Exception", "content_analysis")
    /\ log' = log \cup {"content_analysis"}
    /\ UNCHANGED <<pc, doc, database, freq, probs, get_probs_locals, calculate_locals, res>>

(* run_program: the entry is not a number, or a number outside 1..9: no branch *)
(* of the loop body runs and the menu is shown again.                          *)
InvalidChoice ==
    /\ pc = "menu"
    /\ UNCHANGED vars

(* run_program, menu entries 5..8 (clear_log and the functions called without  *)
(* arguments): they are not handed doc or database and their result is not     *)
(* bound.                                                                      *)
OtherMenuEntry ==
    /\ pc = "menu"
    /\ UNCHANGED vars

Next ==
    \/ ChooseClassification
    \/ GetProbsEnter
    \/ GetProbsRow
    \/ GetProbsReturn
    \/ AnalyzeSentence
    \/ AcknowledgeResult
    \/ ReturnToMainMenu

Spec == Init /\ [][Next]_vars

(* The menu loop of run_program over the selectable training files. *)
InitMenu == Init /\ database \in MenuDatabases

NextMenu ==
    \/ Next
    \/ AnalyzeFile
    \/ AnalyzeFileFails
    \/ AnalyzeFileCancelled
    \/ LoadTrainingFile
    \/ LoadTrainingFileFails
    \/ LoadDocument
    \/ LoadDocumentFails
    \/ AnalyzeContents
    \/ AnalyzeContentsFails
    \/ InvalidChoice
    \/ OtherMenuEntry

SpecMenu == InitMenu /\ [][NextMenu]_vars

-----------------------------------------------------------------------------
(* What the claims speak of, read off the input table and the returned    *)
(* values only.                                                            *)

RowsOf(table) == {table[k] : k \in DOMAIN table}

HasShortRow(table) == \E row \in RowsOf(table) : Len(row) < 6

HasLongRow(table) == \E row \in RowsOf(table) : Len(row) > 6

HasBadLabel(table) ==
    \E row \in RowsOf(table) : Len(row) >= 6 /\ row[6] \notin {"LIT", "ORAL"}

(* the distinct (sentenceTag, corpusTag, label) triples of the rows *)
Triples(table) == {<<row[4], row[5], row[6]>> : row \in {r \in RowsOf(table) : Len(r) >= 6}}

SentencesOf(table, label) == {t \in Triples(table) : t[3] = label}

HasZeroLabel(table) == \E label \in {"LIT", "ORAL"} : SentencesOf(table, label) = {}

(* the words of the rows *)
WordsOf(table) == {row[1] : row \in {r \in RowsOf(table) : Len(r) >= 6}}

(* the number of rows with this word and this label *)
RowCount(table, word, label) ==
    Cardinality({k \in DOMAIN table :
                   Len(table[k]) >= 6 /\ table[k][1] = word /\ table[k][6] = label})

Side(label) == IF label = "LIT" THEN 1 ELSE 2

(* the number x is the quotient a / b (b # 0) *)
IsQuotient(x, a, b) == x[2] # 0 /\ x[1] * b = a * x[2]

ModelReturned == probs # << >>

labelCounts == probs[1]

wordProbability == probs[2]

(* C1: after get_feat_count, labelCounts[LIT] + labelCounts[ORAL] equals the  *)
(* number of distinct (sentenceTag, corpusTag, label) triples of the table.  *)
C1_CountingInvariant ==
    freq # << >> =>
        freq[1]["LIT"] + freq[1]["ORAL"] = Cardinality(Triples(database))

(* C2: every word of wordProbability has both components of its pair in [0, 1]. *)
C2_ProbabilityBounds ==
    ModelReturned =>
        \A w \in DOMAIN wordProbability : \A side \in {1, 2} :
            /\ wordProbability[w][side][1] >= 0
            /\ wordProbability[w][side][1] <= wordProbability[w][side][2]

(* C3: after a build, for every word w and label L with at least one row     *)
(* (w, L), the stored P(w|L) is (number of rows with w and L) / labelCounts[L]: *)
(* the LIT component from the LIT rows, the ORAL component from the ORAL rows. *)
C3_MaximumLikelihood ==
    ModelReturned =>
        \A w \in WordsOf(database) : \A label \in {"LIT", "ORAL"} :
            RowCount(database, w, label) >= 1 =>
                /\ w \in DOMAIN wordProbability
                /\ labelCounts[label] >= 1
                /\ IsQuotient(wordProbability[w][Side(label)],
                              RowCount(database, w, label), labelCounts[label])

C3_Witness ==
    /\ ModelReturned
    /\ RowCount(database, "a", "LIT") = 2
    /\ RowCount(database, "a", "ORAL") = 1
    /\ labelCounts["LIT"] = 2

(* C4: after a build, for every word w of wordProbability and label L' with  *)
(* no row (w, L'), the stored P(w|L') is labelCounts[L'] / N^2 with          *)
(* N = labelCounts[LIT] + labelCounts[ORAL].                                 *)
C4_SmoothingUsesLitPlusOral ==
    ModelReturned =>
        \A w \in DOMAIN wordProbability : \A label \in {"LIT", "ORAL"} :
            RowCount(database, w, label) = 0 =>
                LET N == labelCounts["LIT"] + labelCounts["ORAL"]
                IN  wordProbability[w][Side(label)][1] * (N * N)
                        = labelCounts[label] * wordProbability[w][Side(label)][2]

C6_BadLabelRejected ==
    HasBadLabel(database) => ~ModelReturned

(* C7: if any row has fewer than 6 fields, get_feat_count raises before      *)
(* returning: no labelCounts and no records are produced, whatever rows     *)
(* precede the short one.                                                   *)
C7_ShortRowFailsLoad ==
    HasShortRow(database) =>
        /\ freq = << >>
        /\ probs = << >>
        /\ pc = "menu"
        /\ error \in {NoError, Exception("IndexError", "get_feat_count")}

C7_Witness ==
    /\ Len(database) >= 2
    /\ Len(database[1]) = 6
    /\ HasShortRow(database)
    /\ error = Exception("IndexError", "get_feat_count")
    /\ freq = << >>

(* C8: a table with a row of more than 6 fields yields no model. *)
C8_LongRowRejected ==
    HasLongRow(database) => ~ModelReturned

(* C9: whenever calculate returns, it returns LIT exactly when                *)
(* totalLIT > totalORAL, ORAL exactly when totalORAL > totalLIT, and UNK     *)
(* exactly when the totals are equal; nothing else is returned.              *)
C9_DecisionRule ==
    pc = "classified" =>
        LET lit == lit_prob_total[1] * oral_prob_total[2]
            oral == oral_prob_total[1] * lit_prob_total[2]
        IN  /\ result \in {"LIT", "ORAL", "UNK"}
            /\ (result = "LIT") <=> (lit > oral)
            /\ (result = "ORAL") <=> (oral > lit)
            /\ (result = "UNK") <=> (lit = oral)

C9_Witness ==
    /\ pc = "classified"
    /\ result = "UNK"
    /\ Len(text) = 2
    /\ lit_prob_total = oral_prob_total
    /\ lit_prob_total[1] > 0

(* the product, over all positions k of txt, of the probability used for txt[k] *)
RECURSIVE ProductOverPositions(_, _, _, _)
ProductOverPositions(txt, used, side, k) ==
    IF k > Len(txt) THEN <<1, 1>>
    ELSE LET p == used[txt[k]][side]
             rest == ProductOverPositions(txt, used, side, k + 1)
         IN  <<p[1] * rest[1], p[2] * rest[2]>>

(* C10: every token occurrence contributes one factor to each total:         *)
(* totalLIT = priorLIT * the product over all positions k of the LIT         *)
(* probability used for text[k], and likewise totalORAL, so a token that     *)
(* appears k times contributes its probability k times.                      *)
C10_OneFactorPerOccurrence ==
    pc = "classified" =>
        LET sum == labelCounts["LIT"] + labelCounts["ORAL"]
            lit == ProductOverPositions(text, word_feat_prob, 1, 1)
            oral == ProductOverPositions(text, word_feat_prob, 2, 1)
        IN  /\ IsQuotient(lit_prob_total, labelCounts["LIT"] * lit[1], sum * lit[2])
            /\ IsQuotient(oral_prob_total, labelCounts["ORAL"] * oral[1], sum * oral[2])

(* C11: a token with an entry in wordProbability is scored with its stored   *)
(* pair; a token without one with (labelCounts[LIT] / N^2,                  *)
(* labelCounts[ORAL] / N^2), N = labelCounts[LIT] + labelCounts[ORAL].      *)
C11_TokenScoring ==
    pc = "classified" =>
        \A k \in DOMAIN text :
            LET w == text[k]
                N == labelCounts["LIT"] + labelCounts["ORAL"]
            IN  IF w \in DOMAIN wordProbability
                THEN word_feat_prob[w] = wordProbability[w]
                ELSE /\ IsQuotient(word_feat_prob[w][1], labelCounts["LIT"], N * N)
                     /\ IsQuotient(word_feat_prob[w][2], labelCounts["ORAL"], N * N)

(* C12: on any model a build returned and any token sequence, calculate     *)
(* returns one of LIT, ORAL, UNK and never raises.                          *)
C12_ClassificationNeverRaises ==
    /\ error.in # "calculate"
    /\ pc = "classified" => result \in {"LIT", "ORAL", "UNK"}

(* C13: the two priors that seed the totals in calculate are non-negative   *)
(* and sum to exactly 1.                                                    *)
C13_PriorsSumToOne ==
    pc = "classified" =>
        /\ lit_prior[2] > 0 /\ oral_prior[2] > 0
        /\ lit_prior[1] >= 0 /\ oral_prior[1] >= 0
        /\ lit_prior[1] * oral_prior[2] + oral_prior[1] * lit_prior[2]
              = lit_prior[2] * oral_prior[2]

C13_Witness ==
    /\ pc = "classified"
    /\ lit_prior = <<2, 3>>
    /\ oral_prior = <<1, 3>>

(* C14: an empty token sequence is decided by the priors alone: LIT if      *)
(* priorLIT > priorORAL, ORAL if priorORAL > priorLIT, UNK if equal, and no *)
(* per-token factor is applied.                                             *)
C14_EmptySentenceByPriors ==
    (pc = "classified" /\ text = << >>) =>
        LET lit == lit_prior[1] * oral_prior[2]
            oral == oral_prior[1] * lit_prior[2]
        IN  /\ word_feat_prob = EmptyDict
            /\ lit_prob_total = lit_prior
            /\ oral_prob_total = oral_prior
            /\ result = (IF lit > oral THEN "LIT" ELSE IF oral > lit THEN "ORAL" ELSE "UNK")

C14_Witness ==
    /\ pc = "classified"
    /\ text = << >>
    /\ result = "UNK"
    /\ lit_prior = <<1, 2>>

(* C15: classification never mutates the model: no step of a                *)
(* sentence_classification session (single sentences, files, leaving the    *)
(* session) changes labelCounts or wordProbability.                         *)
ModelKeptByClassification ==
    pc \in {"classify_menu", "classified"} => (probs' = probs)

C15_ClassificationKeepsModel ==
    [][ModelKeptByClassification]_vars

C15_Witness ==
    /\ pc = "classified"
    /\ res # << >>
    /\ "z" \in DOMAIN word_feat_prob
    /\ probs = <<feat_count, prob_results>>
    /\ "z" \notin DOMAIN wordProbability

(* C16: a classification is only ever computed against the model that       *)
(* get_feat_count and get_probs, both run to completion, return for the     *)
(* whole training table selected; after a build that raised, no             *)
(* classification is performed.                                             *)
C16_ClassifyOnlyCompleteModel ==
    pc \in {"classify_menu", "classified"} =>
        /\ get_feat_count(database).raised = "none"
        /\ freq = get_feat_count(database).value
        /\ get_probs(freq).raised = "none"
        /\ probs = get_probs(freq).value

C16_Witness ==
    /\ pc = "menu"
    /\ error = Exception("IndexError", "get_feat_count")
    /\ database = ShortTable
    /\ ModelReturned

(* C17: a failure of the build is reported to the user, never swallowed:    *)
(* when the sentence-classification entry is chosen and the build raises,   *)
(* the failure is reported.                                                 *)
C17_BuildFailureReported ==
    error.in \in {"get_feat_count", "get_probs"} => error.in \in log

(* C18: a one-token sentence whose token was seen in training under exactly *)
(* one label L, never under the other, is classified L.                     *)
C18_SingleLabelTokenWins ==
    (pc = "classified" /\ Len(text) = 1) =>
        \A label \in {"LIT", "ORAL"} :
            LET other == IF label = "LIT" THEN "ORAL" ELSE "LIT"
            IN  (RowCount(database, text[1], label) >= 1
                    /\ RowCount(database, text[1], other) = 0) => result = label

C18_Witness ==
    /\ pc = "classified"
    /\ database = ScenarioTable
    /\ text = <<"a">>
    /\ result = "LIT"

(* C19: the labelCounts get_feat_count returns always has both keys LIT and *)
(* ORAL; a label without a sentence has count 0.                            *)
C19_BothKeysPresent ==
    freq # << >> =>
        /\ {"LIT", "ORAL"} \subseteq DOMAIN freq[1]
        /\ \A label \in {"LIT", "ORAL"} :
              SentencesOf(database, label) = {} => freq[1][label] = 0

C19_Witness ==
    /\ freq # << >>
    /\ Len(database) = 2
    /\ freq[1]["LIT"] = 2
    /\ freq[1]["ORAL"] = 0

(* C20: the order of the rows is irrelevant: every permutation of the table *)
(* builds the same labelCounts and the same wordProbability.                *)
C20_RowOrderIrrelevant ==
    pc = "classify_menu" =>
        \A p \in Permutations(DOMAIN database) :
            LET permuted == [k \in DOMAIN database |-> database[p[k]]]
                loaded == get_feat_count(permuted)
            IN  /\ loaded.raised = "none"
                /\ get_probs(loaded.value) = [raised |-> "none", value |-> probs]

C20_Witness ==
    /\ pc = "classify_menu"
    /\ Len(database) = 3
    /\ database[1][1] = database[3][1]
    /\ database[1][6] = "LIT"
    /\ database[3][6] = "ORAL"
    /\ database[2][1] # database[1][1]

(* the value x is the MLE/smoothing value of word w and label L for the rows *)
(* of `rows`: count / feat_count[L] if w has a row under L, feat_count[L] /  *)
(* n^2 otherwise                                                             *)
IsCumulativeValue(x, rows, w, label, fc, n) ==
    IF RowCount(rows, w, label) >= 1
    THEN IsQuotient(x, RowCount(rows, w, label), fc[label])
    ELSE IsQuotient(x, fc[label], n * n)

IsCumulativePair(pair, rows, w, fc, n) ==
    /\ IsCumulativeValue(pair[1], rows, w, "LIT", fc, n)
    /\ IsCumulativeValue(pair[2], rows, w, "ORAL", fc, n)

(* C21: during the scan of get_probs, after each row the pair stored for    *)
(* the row's word is the MLE/smoothing pair of the word's cumulative LIT    *)
(* and ORAL counts over the rows scanned so far; when the scan ends, every  *)
(* word's pair is the pair of its counts over the whole table.              *)
C21_ScanInvariant ==
    /\ (pc = "scan" /\ i > 1) =>
          LET w == training_data[i - 1][1]
          IN  /\ w \in DOMAIN prob_results
              /\ IsCumulativePair(prob_results[w], SubSeq(training_data, 1, i - 1), w,
                                  feat_count, n_training_data)
    /\ (pc = "scan" /\ i > Len(training_data)) =>
          /\ DOMAIN prob_results = WordsOf(training_data)
          /\ \A w \in WordsOf(training_data) :
                IsCumulativePair(prob_results[w], training_data, w,
                                 feat_count, n_training_data)
    /\ pc = "classify_menu" =>
          \A w \in WordsOf(database) :
              IsCumulativePair(wordProbability[w], database, w,
                               labelCounts, SumValues(labelCounts))

C21_Witness ==
    /\ pc = "scan"
    /\ i = 3
    /\ Len(training_data) = 3
    /\ training_data[1][1] = training_data[2][1]
    /\ training_data[1][6] = "LIT"
    /\ training_data[2][6] = "ORAL"
    /\ training_data[3][1] # training_data[1][1]

(* the prior x is the share p1 / (p1 + p2) of the stored pair <<p1, p2>> *)
IsShareOfPair(x, p1, p2) ==
    /\ p1[1] * p2[2] + p2[1] * p1[2] # 0
    /\ x[1] * (p1[1] * p2[2] + p2[1] * p1[2]) = p1[1] * x[2] * p2[2]

(* C22: the priors of calculate are derived from a stored (pLIT, pORAL)     *)
(* pair of wordProbability (one word's pair), not from the label            *)
(* frequencies labelCounts[LIT] and labelCounts[ORAL].                      *)
C22_PriorsFromWordPair ==
    pc = "classified" =>
        \E w \in DOMAIN wordProbability :
            /\ IsShareOfPair(lit_prior, wordProbability[w][1], wordProbability[w][2])
            /\ IsShareOfPair(oral_prior, wordProbability[w][2], wordProbability[w][1])

(* C22, as amended: the priors of calculate are the label frequencies       *)
(* labelCounts[LIT] / (LIT + ORAL) and labelCounts[ORAL] / (LIT + ORAL);    *)
(* no stored pair of wordProbability enters them.                           *)
C22_PriorsFromLabelCounts ==
    pc = "classified" =>
        LET total == labelCounts["LIT"] + labelCounts["ORAL"]
        IN  /\ total > 0
            /\ IsQuotient(lit_prior, labelCounts["LIT"], total)
            /\ IsQuotient(oral_prior, labelCounts["ORAL"], total)

C22_Witness ==
    /\ pc = "classified"
    /\ labelCounts["LIT"] = 1
    /\ labelCounts["ORAL"] = 2
    /\ lit_prior = <<1, 3>>
    /\ DOMAIN wordProbability = {"a"}
    /\ ~IsShareOfPair(lit_prior, wordProbability["a"][1], wordProbability["a"][2])

(* C23: after a build, the keys of wordProbability are exactly the distinct *)
(* words of the training rows, so calculate treats a token as out of       *)
(* vocabulary (gives it the smoothed pair instead of a stored one) if and  *)
(* only if the token occurs in no training row.                            *)
C23_VocabularyIsTrainingWords ==
    /\ (pc \in {"classify_menu", "classified"}) =>
          DOMAIN wordProbability = WordsOf(database)
    /\ pc = "classified" =>
          \A k \in DOMAIN text :
              LET w == text[k]
                  n == SumValues(labelCounts)
              IN  IF w \in WordsOf(database)
                  THEN w \in DOMAIN wordProbability /\ word_feat_prob[w] = wordProbability[w]
                  ELSE /\ w \notin DOMAIN wordProbability
                       /\ IsQuotient(word_feat_prob[w][1], labelCounts["LIT"], n * n)
                       /\ IsQuotient(word_feat_prob[w][2], labelCounts["ORAL"], n * n)

C23_Witness ==
    /\ pc = "classified"
    /\ text = <<"a", "z">>
    /\ WordsOf(database) = {"a", "b"}
    /\ HasBadLabel(database)
    /\ word_feat_prob["a"] = wordProbability["a"]
    /\ word_feat_prob["z"] # wordProbability["b"]

(* C24: for a model with labelCounts[LIT] + labelCounts[ORAL] > 0 and a     *)
(* token sequence whose tokens are all absent from wordProbability, the     *)
(* result depends only on the label counts: LIT if LIT > ORAL, ORAL if      *)
(* ORAL > LIT, UNK if they are equal.                                       *)
C24_AllUnseenByLabelCounts ==
    (/\ pc = "classified"
     /\ labelCounts["LIT"] + labelCounts["ORAL"] > 0
     /\ \A k \in DOMAIN text : text[k] \notin DOMAIN wordProbability) =>
        result = (IF labelCounts["LIT"] > labelCounts["ORAL"] THEN "LIT"
                  ELSE IF labelCounts["ORAL"] > labelCounts["LIT"] THEN "ORAL"
                  ELSE "UNK")

C24_Witness ==
    /\ pc = "classified"
    /\ Len(text) = 2
    /\ text[1] # text[2]
    /\ \A k \in DOMAIN text : text[k] \notin DOMAIN wordProbability
    /\ labelCounts["ORAL"] = 2
    /\ labelCounts["LIT"] = 1
    /\ result = "ORAL"

(* C25: get_probs, run on what get_feat_count returned for the same table, *)
(* never divides by zero: the MLE branch of label L is taken only when      *)
(* labelCounts[L] >= 1 and the smoothing branch only when N >= 1, so        *)
(* get_probs completes for every such table, also when one label has no     *)
(* sentence.                                                                *)
C25_DivisorsNonZero ==
    /\ error.in # "get_probs"
    /\ (pc = "scan" /\ i > 1) =>
          LET w == training_data[i - 1][1]
              lit_rows == DictGet(oral_feat, w, 0)
              oral_rows == DictGet(lit_feat, w, 0)
          IN  /\ lit_rows > 0 => feat_count["LIT"] >= 1
              /\ oral_rows > 0 => feat_count["ORAL"] >= 1
              /\ (lit_rows = 0 \/ oral_rows = 0) => n_training_data >= 1
    /\ pc = "get_probs" => get_probs(freq).raised = "none"

C25_Witness ==
    /\ pc = "scan"
    /\ Len(training_data) = 3
    /\ i = 4
    /\ feat_count["LIT"] = 0
    /\ feat_count["ORAL"] = 2
    /\ DOMAIN prob_results = {"a", "b"}

(* C26: in the menu loop of run_program the selected document and training *)
(* database change only through a successful load: a failed get_text or     *)
(* get_database, or an invalid choice, leaves both as they were, and each   *)
(* later "sentence classification" builds its model from the database       *)
(* selected at that moment.                                                 *)
SelectionChangesOnlyByLoad ==
    /\ (doc' # doc \/ database' # database) =>
          /\ pc = "menu" /\ pc' = "menu"
          /\ error' = NoError
          /\ log' = log
    /\ (log' # log \/ error'.type # "none") => (doc' = doc /\ database' = database)
    /\ (pc = "menu" /\ pc' # "menu") =>
          /\ get_feat_count(database).raised = "none"
          /\ freq' = get_feat_count(database).value
    /\ (pc' = "classify_menu" /\ pc # "classify_menu") =>
          /\ database' = database
          /\ freq[2] = database
          /\ probs' = get_probs(get_feat_count(database).value).value

====
